---------------------------- MODULE Spec2Model ----------------------------
(***************************************************************************)
(* The JLPT vocabulary converter 02_excel_to_sql.py in its three variants  *)
(* (repository root, Process/, SQL_test/): candidate-pattern generation    *)
(* for a dictionary-form word, the longest-match search that splits the    *)
(* example sentence around it, the per-row choice of example_before and    *)
(* example_after, and SQL string escaping.                                 *)
(*                                                                         *)
(* A Python str is a sequence of characters; a character is a TLA+ string  *)
(* naming it (kana by their romaji, "sp" the space, "q" the single quote,  *)
(* "~" the wave dash).  None and NaN are the one-element sequences         *)
(* <<"None">> and <<"NaN">>, whose element is not a character.             *)
(***************************************************************************)
EXTENDS Integers, Sequences, FiniteSets, TLC

None == <<"None">>
NaN  == <<"NaN">>

\* pd.isna(value) / value is None
isna(v) == v = NaN \/ v = None
notna(v) == ~isna(v)
\* Python truthiness of a cell: None and "" are falsy, NaN (a float) is truthy
Falsy(v) == v = None \/ v = <<>>

-----------------------------------------------------------------------------
(* String primitives                                                       *)

\* characters str.strip() removes
Whitespace == {"sp"}

RECURSIVE LStrip(_)
LStrip(s) == IF s # <<>> /\ Head(s) \in Whitespace THEN LStrip(Tail(s)) ELSE s

RECURSIVE RStrip(_)
RStrip(s) ==
  IF s # <<>> /\ s[Len(s)] \in Whitespace THEN RStrip(SubSeq(s, 1, Len(s) - 1)) ELSE s

strip(s) == RStrip(LStrip(s))

\* s.endswith(suf)
endswith(s, suf) ==
  Len(suf) <= Len(s) /\ SubSeq(s, Len(s) - Len(suf) + 1, Len(s)) = suf

\* positions (1-based) at which p occurs in s
Occurrences(s, p) ==
  {i \in 1..(Len(s) - Len(p) + 1) : SubSeq(s, i, i + Len(p) - 1) = p}

\* p in s
Contains(s, p) == Occurrences(s, p) # {}

\* s.index(p), 1-based, for p in s
index(s, p) == CHOOSE i \in Occurrences(s, p) : \A j \in Occurrences(s, p) : i <= j

\* s.split(ch) for a one-character separator: the list of parts, empty parts kept
RECURSIVE split(_, _)
split(s, ch) ==
  IF \A i \in 1..Len(s) : s[i] # ch THEN <<s>>
  ELSE LET k == CHOOSE i \in 1..Len(s) : s[i] = ch /\ \A j \in 1..(i - 1) : s[j] # ch
       IN  <<SubSeq(s, 1, k - 1)>> \o split(SubSeq(s, k + 1, Len(s)), ch)

\* s.replace(ch, '') for a one-character ch
remove(s, ch) == SelectSeq(s, LAMBDA c : c # ch)

\* concatenation of a list of lists
RECURSIVE Flatten(_)
Flatten(ss) == IF ss = <<>> THEN <<>> ELSE Head(ss) \o Flatten(Tail(ss))

\* elements of a list
Elems(s) == {s[i] : i \in 1..Len(s)}

\* the markers the cleaning regex [＊\*\+（）\(\)①②③④⑤] deletes
Markers == {"fwast", "ast", "plus", "fwlpar", "fwrpar", "lpar", "rpar",
            "c1", "c2", "c3", "c4", "c5"}

\* re.sub(r'[＊\*\+（）\(\)①②③④⑤]', '', kanji).strip()
clean_kanji(kanji) == strip(SelectSeq(kanji, LAMBDA c : c \notin Markers))

\* clean_kanji.endswith('(な)') or clean_kanji.endswith('（な）')
EndsWithParenNa(clean) ==
  endswith(clean, <<"lpar", "na", "rpar">>) \/ endswith(clean, <<"fwlpar", "na", "fwrpar">>)

\* re.sub(r'[\(（]な[\)）]$', '', clean_kanji)
StripParenNa(clean) == SubSeq(clean, 1, Len(clean) - 3)

\* the particles of the compound-word loop, in loop order
Particles == <<"ga", "wo", "ni", "de", "to", "no">>

-----------------------------------------------------------------------------
(* Conjugation tables                                                      *)

\* verb_endings of the root variant: <<ending, conjugations>> in dict order
verb_endings_root ==
  <<
     <<"ru", <<
         <<>>, <<"te">>, <<"ta">>, <<"na", "i">>, <<"ma", "su">>, <<"re", "ba">>,
         <<"yo", "u">>, <<"ra", "re", "ru">>, <<"sa", "se", "ru">>, <<"te", "i", "ru">>,
         <<"te", "i", "ta">>, <<"te", "ru">>, <<"te", "ta">>, <<"zu">>, <<"zu", "ni">>,
         <<"ta", "i">>, <<"ta", "ra">>, <<"ta", "ri">>, <<"ro">>, <<"re">>,
         <<"sa", "se">>, <<"ra", "re">>, <<"na", "ka", "xtsu", "ta">>, <<"ma", "se", "n">>>>>>,
     <<"u", <<
         <<"wa">>, <<"i">>, <<"xtsu", "te">>, <<"xtsu", "ta">>, <<"wa", "na", "i">>,
         <<"i", "ma", "su">>, <<"e", "ba">>, <<"o", "u">>, <<"wa", "zu">>,
         <<"i", "ta", "i">>, <<"xtsu", "ta", "ra">>, <<"xtsu", "ta", "ri">>, <<"e">>,
         <<"wa", "na", "ka", "xtsu", "ta">>>>>>,
     <<"ku", <<
         <<"ka">>, <<"ki">>, <<"i", "te">>, <<"i", "ta">>, <<"ka", "na", "i">>,
         <<"ki", "ma", "su">>, <<"ke", "ba">>, <<"ko", "u">>, <<"ka", "zu">>,
         <<"ki", "ta", "i">>, <<"i", "ta", "ra">>, <<"i", "ta", "ri">>, <<"ke">>,
         <<"ka", "na", "ka", "xtsu", "ta">>>>>>,
     <<"gu", <<
         <<"ga">>, <<"gi">>, <<"i", "de">>, <<"i", "da">>, <<"ga", "na", "i">>,
         <<"gi", "ma", "su">>, <<"ge", "ba">>, <<"go", "u">>, <<"ga", "zu">>,
         <<"gi", "ta", "i">>, <<"i", "da", "ra">>, <<"i", "da", "ri">>, <<"ge">>,
         <<"ga", "na", "ka", "xtsu", "ta">>>>>>,
     <<"su", <<
         <<"sa">>, <<"shi">>, <<"shi", "te">>, <<"shi", "ta">>, <<"sa", "na", "i">>,
         <<"shi", "ma", "su">>, <<"se", "ba">>, <<"so", "u">>, <<"sa", "zu">>,
         <<"shi", "ta", "i">>, <<"shi", "ta", "ra">>, <<"shi", "ta", "ri">>, <<"se">>,
         <<"sa", "na", "ka", "xtsu", "ta">>>>>>,
     <<"tsu", <<
         <<"ta">>, <<"chi">>, <<"xtsu", "te">>, <<"xtsu", "ta">>, <<"ta", "na", "i">>,
         <<"chi", "ma", "su">>, <<"te", "ba">>, <<"to", "u">>, <<"ta", "zu">>,
         <<"chi", "ta", "i">>, <<"xtsu", "ta", "ra">>, <<"xtsu", "ta", "ri">>, <<"te">>,
         <<"ta", "na", "ka", "xtsu", "ta">>>>>>,
     <<"nu", <<
         <<"na">>, <<"ni">>, <<"n", "de">>, <<"n", "da">>, <<"na", "na", "i">>,
         <<"ni", "ma", "su">>, <<"ne", "ba">>, <<"no", "u">>, <<"na", "zu">>,
         <<"ni", "ta", "i">>, <<"n", "da", "ra">>, <<"n", "da", "ri">>, <<"ne">>,
         <<"na", "na", "ka", "xtsu", "ta">>>>>>,
     <<"bu", <<
         <<"ba">>, <<"bi">>, <<"n", "de">>, <<"n", "da">>, <<"ba", "na", "i">>,
         <<"bi", "ma", "su">>, <<"be", "ba">>, <<"bo", "u">>, <<"ba", "zu">>,
         <<"bi", "ta", "i">>, <<"n", "da", "ra">>, <<"n", "da", "ri">>, <<"be">>,
         <<"ba", "na", "ka", "xtsu", "ta">>>>>>,
     <<"mu", <<
         <<"ma">>, <<"mi">>, <<"n", "de">>, <<"n", "da">>, <<"ma", "na", "i">>,
         <<"mi", "ma", "su">>, <<"me", "ba">>, <<"mo", "u">>, <<"ma", "zu">>,
         <<"mi", "ta", "i">>, <<"n", "da", "ra">>, <<"n", "da", "ri">>, <<"me">>,
         <<"ma", "na", "ka", "xtsu", "ta">>>>>>
  >>

\* verb_endings of the SQL_test variant (no "masen" for ru)
verb_endings_sqltest ==
  <<
     <<"ru", <<
         <<>>, <<"te">>, <<"ta">>, <<"na", "i">>, <<"ma", "su">>, <<"re", "ba">>,
         <<"yo", "u">>, <<"ra", "re", "ru">>, <<"sa", "se", "ru">>, <<"te", "i", "ru">>,
         <<"te", "i", "ta">>, <<"te", "ru">>, <<"te", "ta">>, <<"zu">>, <<"zu", "ni">>,
         <<"ta", "i">>, <<"ta", "ra">>, <<"ta", "ri">>, <<"ro">>, <<"re">>,
         <<"sa", "se">>, <<"ra", "re">>, <<"na", "ka", "xtsu", "ta">>>>>>,
     <<"u", <<
         <<"wa">>, <<"i">>, <<"xtsu", "te">>, <<"xtsu", "ta">>, <<"wa", "na", "i">>,
         <<"i", "ma", "su">>, <<"e", "ba">>, <<"o", "u">>, <<"wa", "zu">>,
         <<"i", "ta", "i">>, <<"xtsu", "ta", "ra">>, <<"xtsu", "ta", "ri">>, <<"e">>,
         <<"wa", "na", "ka", "xtsu", "ta">>>>>>,
     <<"ku", <<
         <<"ka">>, <<"ki">>, <<"i", "te">>, <<"i", "ta">>, <<"ka", "na", "i">>,
         <<"ki", "ma", "su">>, <<"ke", "ba">>, <<"ko", "u">>, <<"ka", "zu">>,
         <<"ki", "ta", "i">>, <<"i", "ta", "ra">>, <<"i", "ta", "ri">>, <<"ke">>,
         <<"ka", "na", "ka", "xtsu", "ta">>>>>>,
     <<"gu", <<
         <<"ga">>, <<"gi">>, <<"i", "de">>, <<"i", "da">>, <<"ga", "na", "i">>,
         <<"gi", "ma", "su">>, <<"ge", "ba">>, <<"go", "u">>, <<"ga", "zu">>,
         <<"gi", "ta", "i">>, <<"i", "da", "ra">>, <<"i", "da", "ri">>, <<"ge">>,
         <<"ga", "na", "ka", "xtsu", "ta">>>>>>,
     <<"su", <<
         <<"sa">>, <<"shi">>, <<"shi", "te">>, <<"shi", "ta">>, <<"sa", "na", "i">>,
         <<"shi", "ma", "su">>, <<"se", "ba">>, <<"so", "u">>, <<"sa", "zu">>,
         <<"shi", "ta", "i">>, <<"shi", "ta", "ra">>, <<"shi", "ta", "ri">>, <<"se">>,
         <<"sa", "na", "ka", "xtsu", "ta">>>>>>,
     <<"tsu", <<
         <<"ta">>, <<"chi">>, <<"xtsu", "te">>, <<"xtsu", "ta">>, <<"ta", "na", "i">>,
         <<"chi", "ma", "su">>, <<"te", "ba">>, <<"to", "u">>, <<"ta", "zu">>,
         <<"chi", "ta", "i">>, <<"xtsu", "ta", "ra">>, <<"xtsu", "ta", "ri">>, <<"te">>,
         <<"ta", "na", "ka", "xtsu", "ta">>>>>>,
     <<"nu", <<
         <<"na">>, <<"ni">>, <<"n", "de">>, <<"n", "da">>, <<"na", "na", "i">>,
         <<"ni", "ma", "su">>, <<"ne", "ba">>, <<"no", "u">>, <<"na", "zu">>,
         <<"ni", "ta", "i">>, <<"n", "da", "ra">>, <<"n", "da", "ri">>, <<"ne">>,
         <<"na", "na", "ka", "xtsu", "ta">>>>>>,
     <<"bu", <<
         <<"ba">>, <<"bi">>, <<"n", "de">>, <<"n", "da">>, <<"ba", "na", "i">>,
         <<"bi", "ma", "su">>, <<"be", "ba">>, <<"bo", "u">>, <<"ba", "zu">>,
         <<"bi", "ta", "i">>, <<"n", "da", "ra">>, <<"n", "da", "ri">>, <<"be">>,
         <<"ba", "na", "ka", "xtsu", "ta">>>>>>,
     <<"mu", <<
         <<"ma">>, <<"mi">>, <<"n", "de">>, <<"n", "da">>, <<"ma", "na", "i">>,
         <<"mi", "ma", "su">>, <<"me", "ba">>, <<"mo", "u">>, <<"ma", "zu">>,
         <<"mi", "ta", "i">>, <<"n", "da", "ra">>, <<"n", "da", "ri">>, <<"me">>,
         <<"ma", "na", "ka", "xtsu", "ta">>>>>>
  >>

\* i_adj_endings, the same list in the root and SQL_test variants
i_adj_endings ==
  <<<<"i">>, <<"ku">>, <<"ku", "te">>, <<"ka", "xtsu", "ta">>, <<"ku", "na", "i">>, <<"ku", "na", "ka", "xtsu", "ta">>,
    <<"ke", "re", "ba">>, <<"sa">>, <<"so", "u">>, <<"su", "gi", "ru">>, <<"su", "gi">>, <<"mi">>>>

\* VERB_CONJUGATION_MAP of the Process variant:
\* <<ending, <<conj_suffix, display_suffix>>...>> in dict order
VERB_CONJUGATION_MAP ==
  <<
     <<"ru",
       <<<<<<>>, <<>>>>,
         <<<<"te">>, <<"~", "te">>>>,
         <<<<"ta">>, <<"~", "ta">>>>,
         <<<<"na", "i">>, <<"~", "na", "i">>>>,
         <<<<"ma", "su">>, <<"~", "ma", "su">>>>,
         <<<<"re", "ba">>, <<"~", "re", "ba">>>>,
         <<<<"yo", "u">>, <<"~", "yo", "u">>>>,
         <<<<"ra", "re", "ru">>, <<"~", "ra", "re", "ru">>>>,
         <<<<"sa", "se", "ru">>, <<"~", "sa", "se", "ru">>>>,
         <<<<"te", "i", "ru">>, <<"~", "te", "i", "ru">>>>,
         <<<<"te", "i", "ta">>, <<"~", "te", "i", "ta">>>>,
         <<<<"te", "ru">>, <<"~", "te", "ru">>>>,
         <<<<"te", "ta">>, <<"~", "te", "ta">>>>,
         <<<<"zu">>, <<"~", "zu">>>>,
         <<<<"zu", "ni">>, <<"~", "zu", "ni">>>>,
         <<<<"ta", "i">>, <<"~", "ta", "i">>>>,
         <<<<"ta", "ra">>, <<"~", "ta", "ra">>>>,
         <<<<"ta", "ri">>, <<"~", "ta", "ri">>>>,
         <<<<"ro">>, <<"~", "ro">>>>,
         <<<<"re">>, <<"~", "re">>>>,
         <<<<"sa", "se">>, <<"~", "sa", "se">>>>,
         <<<<"ra", "re">>, <<"~", "ra", "re">>>>,
         <<<<"na", "ka", "xtsu", "ta">>, <<"~", "na", "ka", "xtsu", "ta">>>>,
         <<<<"ma", "se", "n">>, <<"~", "ma", "se", "n">>>>,
         <<<<"na", "ga", "ra">>, <<"~", "na", "ga", "ra">>>>,
         <<<<"tsu", "tsu">>, <<"~", "tsu", "tsu">>>>>>>>,
     <<"ku",
       <<<<<<>>, <<>>>>,
         <<<<"i", "te">>, <<"~", "i", "te">>>>,
         <<<<"i", "ta">>, <<"~", "i", "ta">>>>,
         <<<<"ka", "na", "i">>, <<"~", "ka", "na", "i">>>>,
         <<<<"ki", "ma", "su">>, <<"~", "ki", "ma", "su">>>>,
         <<<<"ke", "ba">>, <<"~", "ke", "ba">>>>,
         <<<<"ko", "u">>, <<"~", "ko", "u">>>>,
         <<<<"ka", "zu">>, <<"~", "ka", "zu">>>>,
         <<<<"ki", "ta", "i">>, <<"~", "ki", "ta", "i">>>>,
         <<<<"i", "ta", "ra">>, <<"~", "i", "ta", "ra">>>>,
         <<<<"i", "ta", "ri">>, <<"~", "i", "ta", "ri">>>>,
         <<<<"ke">>, <<"~", "ke">>>>,
         <<<<"ka", "na", "ka", "xtsu", "ta">>, <<"~", "ka", "na", "ka", "xtsu", "ta">>>>,
         <<<<"ki">>, <<"~", "ki">>>>,
         <<<<"ka">>, <<"~", "ka">>>>,
         <<<<"ki", "na", "ga", "ra">>, <<"~", "ki", "na", "ga", "ra">>>>>>>>,
     <<"gu",
       <<<<<<>>, <<>>>>,
         <<<<"i", "de">>, <<"~", "i", "de">>>>,
         <<<<"i", "da">>, <<"~", "i", "da">>>>,
         <<<<"ga", "na", "i">>, <<"~", "ga", "na", "i">>>>,
         <<<<"gi", "ma", "su">>, <<"~", "gi", "ma", "su">>>>,
         <<<<"ge", "ba">>, <<"~", "ge", "ba">>>>,
         <<<<"go", "u">>, <<"~", "go", "u">>>>,
         <<<<"ga", "zu">>, <<"~", "ga", "zu">>>>,
         <<<<"gi", "ta", "i">>, <<"~", "gi", "ta", "i">>>>,
         <<<<"i", "da", "ra">>, <<"~", "i", "da", "ra">>>>,
         <<<<"i", "da", "ri">>, <<"~", "i", "da", "ri">>>>,
         <<<<"ge">>, <<"~", "ge">>>>,
         <<<<"ga", "na", "ka", "xtsu", "ta">>, <<"~", "ga", "na", "ka", "xtsu", "ta">>>>,
         <<<<"gi">>, <<"~", "gi">>>>,
         <<<<"ga">>, <<"~", "ga">>>>,
         <<<<"gi", "na", "ga", "ra">>, <<"~", "gi", "na", "ga", "ra">>>>>>>>,
     <<"su",
       <<<<<<>>, <<>>>>,
         <<<<"shi", "te">>, <<"~", "shi", "te">>>>,
         <<<<"shi", "ta">>, <<"~", "shi", "ta">>>>,
         <<<<"sa", "na", "i">>, <<"~", "sa", "na", "i">>>>,
         <<<<"shi", "ma", "su">>, <<"~", "shi", "ma", "su">>>>,
         <<<<"se", "ba">>, <<"~", "se", "ba">>>>,
         <<<<"so", "u">>, <<"~", "so", "u">>>>,
         <<<<"sa", "zu">>, <<"~", "sa", "zu">>>>,
         <<<<"shi", "ta", "i">>, <<"~", "shi", "ta", "i">>>>,
         <<<<"shi", "ta", "ra">>, <<"~", "shi", "ta", "ra">>>>,
         <<<<"shi", "ta", "ri">>, <<"~", "shi", "ta", "ri">>>>,
         <<<<"se">>, <<"~", "se">>>>,
         <<<<"sa", "na", "ka", "xtsu", "ta">>, <<"~", "sa", "na", "ka", "xtsu", "ta">>>>,
         <<<<"shi">>, <<"~", "shi">>>>,
         <<<<"sa">>, <<"~", "sa">>>>,
         <<<<"shi", "na", "ga", "ra">>, <<"~", "shi", "na", "ga", "ra">>>>>>>>,
     <<"tsu",
       <<<<<<>>, <<>>>>,
         <<<<"xtsu", "te">>, <<"~", "xtsu", "te">>>>,
         <<<<"xtsu", "ta">>, <<"~", "xtsu", "ta">>>>,
         <<<<"ta", "na", "i">>, <<"~", "ta", "na", "i">>>>,
         <<<<"chi", "ma", "su">>, <<"~", "chi", "ma", "su">>>>,
         <<<<"te", "ba">>, <<"~", "te", "ba">>>>,
         <<<<"to", "u">>, <<"~", "to", "u">>>>,
         <<<<"ta", "zu">>, <<"~", "ta", "zu">>>>,
         <<<<"chi", "ta", "i">>, <<"~", "chi", "ta", "i">>>>,
         <<<<"xtsu", "ta", "ra">>, <<"~", "xtsu", "ta", "ra">>>>,
         <<<<"xtsu", "ta", "ri">>, <<"~", "xtsu", "ta", "ri">>>>,
         <<<<"te">>, <<"~", "te">>>>,
         <<<<"ta", "na", "ka", "xtsu", "ta">>, <<"~", "ta", "na", "ka", "xtsu", "ta">>>>,
         <<<<"chi">>, <<"~", "chi">>>>,
         <<<<"ta">>, <<"~", "ta">>>>,
         <<<<"chi", "na", "ga", "ra">>, <<"~", "chi", "na", "ga", "ra">>>>>>>>,
     <<"nu",
       <<<<<<>>, <<>>>>,
         <<<<"n", "de">>, <<"~", "n", "de">>>>,
         <<<<"n", "da">>, <<"~", "n", "da">>>>,
         <<<<"na", "na", "i">>, <<"~", "na", "na", "i">>>>,
         <<<<"ni", "ma", "su">>, <<"~", "ni", "ma", "su">>>>,
         <<<<"ne", "ba">>, <<"~", "ne", "ba">>>>,
         <<<<"no", "u">>, <<"~", "no", "u">>>>,
         <<<<"na", "zu">>, <<"~", "na", "zu">>>>,
         <<<<"ni", "ta", "i">>, <<"~", "ni", "ta", "i">>>>,
         <<<<"n", "da", "ra">>, <<"~", "n", "da", "ra">>>>,
         <<<<"n", "da", "ri">>, <<"~", "n", "da", "ri">>>>,
         <<<<"ne">>, <<"~", "ne">>>>,
         <<<<"na", "na", "ka", "xtsu", "ta">>, <<"~", "na", "na", "ka", "xtsu", "ta">>>>,
         <<<<"ni">>, <<"~", "ni">>>>,
         <<<<"na">>, <<"~", "na">>>>,
         <<<<"ni", "na", "ga", "ra">>, <<"~", "ni", "na", "ga", "ra">>>>>>>>,
     <<"bu",
       <<<<<<>>, <<>>>>,
         <<<<"n", "de">>, <<"~", "n", "de">>>>,
         <<<<"n", "da">>, <<"~", "n", "da">>>>,
         <<<<"ba", "na", "i">>, <<"~", "ba", "na", "i">>>>,
         <<<<"bi", "ma", "su">>, <<"~", "bi", "ma", "su">>>>,
         <<<<"be", "ba">>, <<"~", "be", "ba">>>>,
         <<<<"bo", "u">>, <<"~", "bo", "u">>>>,
         <<<<"ba", "zu">>, <<"~", "ba", "zu">>>>,
         <<<<"bi", "ta", "i">>, <<"~", "bi", "ta", "i">>>>,
         <<<<"n", "da", "ra">>, <<"~", "n", "da", "ra">>>>,
         <<<<"n", "da", "ri">>, <<"~", "n", "da", "ri">>>>,
         <<<<"be">>, <<"~", "be">>>>,
         <<<<"ba", "na", "ka", "xtsu", "ta">>, <<"~", "ba", "na", "ka", "xtsu", "ta">>>>,
         <<<<"bi">>, <<"~", "bi">>>>,
         <<<<"ba">>, <<"~", "ba">>>>,
         <<<<"bi", "na", "ga", "ra">>, <<"~", "bi", "na", "ga", "ra">>>>>>>>,
     <<"mu",
       <<<<<<>>, <<>>>>,
         <<<<"n", "de">>, <<"~", "n", "de">>>>,
         <<<<"n", "da">>, <<"~", "n", "da">>>>,
         <<<<"ma", "na", "i">>, <<"~", "ma", "na", "i">>>>,
         <<<<"mi", "ma", "su">>, <<"~", "mi", "ma", "su">>>>,
         <<<<"me", "ba">>, <<"~", "me", "ba">>>>,
         <<<<"mo", "u">>, <<"~", "mo", "u">>>>,
         <<<<"ma", "zu">>, <<"~", "ma", "zu">>>>,
         <<<<"mi", "ta", "i">>, <<"~", "mi", "ta", "i">>>>,
         <<<<"n", "da", "ra">>, <<"~", "n", "da", "ra">>>>,
         <<<<"n", "da", "ri">>, <<"~", "n", "da", "ri">>>>,
         <<<<"me">>, <<"~", "me">>>>,
         <<<<"ma", "na", "ka", "xtsu", "ta">>, <<"~", "ma", "na", "ka", "xtsu", "ta">>>>,
         <<<<"mi">>, <<"~", "mi">>>>,
         <<<<"ma">>, <<"~", "ma">>>>,
         <<<<"mi", "na", "ga", "ra">>, <<"~", "mi", "na", "ga", "ra">>>>>>>>,
     <<"u",
       <<<<<<>>, <<>>>>,
         <<<<"xtsu", "te">>, <<"~", "xtsu", "te">>>>,
         <<<<"xtsu", "ta">>, <<"~", "xtsu", "ta">>>>,
         <<<<"wa", "na", "i">>, <<"~", "wa", "na", "i">>>>,
         <<<<"i", "ma", "su">>, <<"~", "i", "ma", "su">>>>,
         <<<<"e", "ba">>, <<"~", "e", "ba">>>>,
         <<<<"o", "u">>, <<"~", "o", "u">>>>,
         <<<<"wa", "zu">>, <<"~", "wa", "zu">>>>,
         <<<<"i", "ta", "i">>, <<"~", "i", "ta", "i">>>>,
         <<<<"xtsu", "ta", "ra">>, <<"~", "xtsu", "ta", "ra">>>>,
         <<<<"xtsu", "ta", "ri">>, <<"~", "xtsu", "ta", "ri">>>>,
         <<<<"e">>, <<"~", "e">>>>,
         <<<<"wa", "na", "ka", "xtsu", "ta">>, <<"~", "wa", "na", "ka", "xtsu", "ta">>>>,
         <<<<"i">>, <<"~", "i">>>>,
         <<<<"wa">>, <<"~", "wa">>>>,
         <<<<"i", "na", "ga", "ra">>, <<"~", "i", "na", "ga", "ra">>>>>>>>
  >>

\* I_ADJ_CONJUGATION_MAP: <<conj_suffix, display_suffix>> in dict order
I_ADJ_CONJUGATION_MAP ==
  <<
     <<<<"i">>, <<>>>>,
     <<<<"ku">>, <<"~", "ku">>>>,
     <<<<"ku", "te">>, <<"~", "ku", "te">>>>,
     <<<<"ka", "xtsu", "ta">>, <<"~", "ka", "xtsu", "ta">>>>,
     <<<<"ku", "na", "i">>, <<"~", "ku", "na", "i">>>>,
     <<<<"ku", "na", "ka", "xtsu", "ta">>, <<"~", "ku", "na", "ka", "xtsu", "ta">>>>,
     <<<<"ke", "re", "ba">>, <<"~", "ke", "re", "ba">>>>,
     <<<<"sa">>, <<"~", "sa">>>>,
     <<<<"so", "u">>, <<"~", "so", "u">>>>,
     <<<<"su", "gi", "ru">>, <<"~", "su", "gi", "ru">>>>,
     <<<<"su", "gi">>, <<"~", "su", "gi">>>>,
     <<<<"mi">>, <<"~", "mi">>>>
  >>

\* NA_ADJ_CONJUGATION_MAP: <<conj_suffix, display_suffix>> in dict order
NA_ADJ_CONJUGATION_MAP ==
  <<
     <<<<>>, <<>>>>,
     <<<<"na">>, <<"~", "na">>>>,
     <<<<"ni">>, <<"~", "ni">>>>,
     <<<<"da">>, <<"~", "da">>>>,
     <<<<"de">>, <<"~", "de">>>>,
     <<<<"da", "xtsu", "ta">>, <<"~", "da", "xtsu", "ta">>>>,
     <<<<"de", "ha", "na", "i">>, <<"~", "de", "ha", "na", "i">>>>,
     <<<<"ji", "xya", "na", "i">>, <<"~", "ji", "xya", "na", "i">>>>
  >>

-----------------------------------------------------------------------------
(* Candidate patterns                                                      *)

Variants == {"root", "Process", "SQL_test"}

\* the variants that import fugashi
FugashiVariants == {"root", "Process"}

\* the verb_endings dict of a variant's get_stem_patterns
verb_endings(variant) ==
  IF variant = "SQL_test" THEN verb_endings_sqltest ELSE verb_endings_root

\* tagger(word): the tokens fugashi cuts the word into, each <<lemma, surface>>.
\* The outcome of the external tagger is the record tag: the word is one
\* token (cut = 0) or is cut after its first tag.cut characters, and the last
\* token carries the lemma tag.lemma (None: no lemma).
tagger(word, tag) ==
  IF tag.cut = 0 \/ tag.cut >= Len(word)
  THEN <<<<tag.lemma, word>>>>
  ELSE <<<<None, SubSeq(word, 1, tag.cut)>>,
         <<tag.lemma, SubSeq(word, tag.cut + 1, Len(word))>>>>

\* list(set(forms)), duplicates dropped, in first-occurrence order
RECURSIVE Unique(_, _)
Unique(s, seen) ==
  IF s = <<>> THEN <<>>
  ELSE IF Head(s) \in seen THEN Unique(Tail(s), seen)
       ELSE <<Head(s)>> \o Unique(Tail(s), seen \cup {Head(s)})

\* get_dictionary_form(word); tag.available is FUGASHI_AVAILABLE
get_dictionary_form(word, tag) ==
  IF ~tag.available THEN <<word>>
  ELSE LET tokens == tagger(word, tag)
           forms  == <<word>> \o Flatten([i \in 1..Len(tokens) |->
                        IF tokens[i][1] # None /\ tokens[i][1] # <<>>
                        THEN <<tokens[i][1], tokens[i][2]>>
                        ELSE <<tokens[i][2]>>])
       IN  Unique(forms, {})

\* the verb loop with its inner loop stopping one conjugation short
VerbPatterns_skipLast(table, clean) ==
  Flatten([e \in 1..Len(table) |->
    LET stem == SubSeq(clean, 1, Len(clean) - 1)
    IN  IF endswith(clean, <<table[e][1]>>) /\ stem # <<>>
        THEN [c \in 1..(Len(table[e][2]) - 1) |-> stem \o table[e][2][c]] \o <<stem>>
        ELSE <<>>])

\* the verb loop of get_stem_patterns: for each ending the word has, with a
\* non-empty stem, stem + conj for every conj and then the stem
VerbPatterns(table, clean) ==
  Flatten([e \in 1..Len(table) |->
    LET stem == SubSeq(clean, 1, Len(clean) - 1)
    IN  IF endswith(clean, <<table[e][1]>>) /\ stem # <<>>
        THEN [c \in 1..Len(table[e][2]) |-> stem \o table[e][2][c]] \o <<stem>>
        ELSE <<>>])

\* the い-adjective block
IAdjPatterns(clean) ==
  LET stem == SubSeq(clean, 1, Len(clean) - 1)
  IN  IF endswith(clean, <<"i">>) /\ Len(clean) > 1
      THEN [c \in 1..Len(i_adj_endings) |-> stem \o i_adj_endings[c]] \o <<stem>>
      ELSE <<>>

\* the two な-adjective blocks
NaAdjPatterns(clean) ==
  (LET stem == SubSeq(clean, 1, Len(clean) - 1)
   IN  IF endswith(clean, <<"na">>)
       THEN <<stem, stem \o <<"na">>, stem \o <<"ni">>, stem \o <<"da">>, stem \o <<"de">>,
              stem \o <<"da", "xtsu", "ta">>, stem \o <<"de", "ha", "na", "i">>,
              stem \o <<"ji", "xya", "na", "i">>>>
       ELSE <<>>)
  \o
  (LET stem == StripParenNa(clean)
   IN  IF EndsWithParenNa(clean)
       THEN <<stem, stem \o <<"na">>, stem \o <<"ni">>, stem \o <<"da">>, stem \o <<"de">>>>
       ELSE <<>>)

\* the compound-word loop: the parts around each particle the word contains,
\* then the word without the particle
ParticlePatterns(clean) ==
  Flatten([p \in 1..Len(Particles) |->
    IF Particles[p] \in Elems(clean)
    THEN split(clean, Particles[p]) \o <<remove(clean, Particles[p])>>
    ELSE <<>>])

\* get_stem_patterns(kanji) of the root and SQL_test variants
get_stem_patterns(variant, kanji, tag) ==
  LET clean    == clean_kanji(kanji)
      patterns == <<kanji>>
                  \o (IF clean # kanji THEN <<clean>> ELSE <<>>)
                  \o (IF variant = "root" /\ tag.available
                      THEN get_dictionary_form(clean, tag) ELSE <<>>)
                  \o VerbPatterns(verb_endings(variant), clean)
                  \o IAdjPatterns(clean)
                  \o NaAdjPatterns(clean)
                  \o ParticlePatterns(clean)
  IN  Unique(SelectSeq(patterns, LAMBDA p : p # <<>>), {})

\* patterns.append((form, suffix)) guarded by
\* "form not in [p[0] for p in patterns]" (and by "form" where nonEmpty)
AddNew(patterns, form, suffix, nonEmpty) ==
  IF (nonEmpty /\ form = <<>>) \/ \E i \in 1..Len(patterns) : patterns[i][1] = form
  THEN patterns
  ELSE Append(patterns, <<form, suffix>>)

\* a loop of AddNew over a list of <<form, suffix>> pairs, in the list's
\* order: a pair is appended unless its form is empty (where nonEmpty), is a
\* form of the patterns, or is the form of an earlier pair of the list
AddAll(patterns, pairs, nonEmpty) ==
  LET IsNew(i) == /\ ~(nonEmpty /\ pairs[i][1] = <<>>)
                  /\ ~\E k \in 1..Len(patterns) : patterns[k][1] = pairs[i][1]
                  /\ ~\E j \in 1..(i - 1) : pairs[j][1] = pairs[i][1]
      added == SelectSeq([i \in 1..Len(pairs) |-> i], IsNew)
  IN  patterns \o [k \in 1..Len(added) |-> pairs[added[k]]]

\* AddConjugations storing the conjugation suffix itself, without the wave
\* dash of the display suffix
AddConjugations_rawSuffix(patterns, stem, map) ==
  AddAll(patterns, [i \in 1..Len(map) |-> <<stem \o map[i][1], map[i][1]>>], TRUE)

\* AddNew of stem + conj_suffix with its display suffix, for the entries of
\* a conjugation map in the map's order
AddConjugations(patterns, stem, map) ==
  AddAll(patterns, [i \in 1..Len(map) |-> <<stem \o map[i][1], map[i][2]>>], TRUE)

\* AddNew of the forms of a list, in its order, each with the empty display
\* suffix
AddForms(patterns, forms, nonEmpty) ==
  AddAll(patterns, [i \in 1..Len(forms) |-> <<forms[i], <<>>>>], nonEmpty)

\* the verb loop of get_stem_and_conjugations over the entries 1..e of the map
RECURSIVE AddVerbs(_, _, _)
AddVerbs(patterns, clean, e) ==
  IF e = 0 THEN patterns
  ELSE LET stem == SubSeq(clean, 1, Len(clean) - 1)
       IN  IF endswith(clean, <<VERB_CONJUGATION_MAP[e][1]>>) /\ stem # <<>>
           THEN AddNew(AddConjugations(AddVerbs(patterns, clean, e - 1), stem,
                                       VERB_CONJUGATION_MAP[e][2]),
                       stem, <<"~">>, FALSE)
           ELSE AddVerbs(patterns, clean, e - 1)

\* the compound-word loop of get_stem_and_conjugations over the particles 1..p
RECURSIVE AddParticles(_, _, _)
AddParticles(patterns, clean, p) ==
  IF p = 0 THEN patterns
  ELSE IF Particles[p] \in Elems(clean)
       THEN AddForms(AddParticles(patterns, clean, p - 1), split(clean, Particles[p]), TRUE)
       ELSE AddParticles(patterns, clean, p - 1)

\* get_stem_and_conjugations(kanji) of the Process variant:
\* the list of <<pattern_to_match, display_suffix>>
get_stem_and_conjugations(kanji, tag) ==
  LET clean == clean_kanji(kanji)
      stem  == SubSeq(clean, 1, Len(clean) - 1)
      forms == get_dictionary_form(clean, tag)
      p1 == <<<<kanji, <<>>>>>> \o (IF clean # kanji THEN <<<<clean, <<>>>>>> ELSE <<>>)
      p2 == IF tag.available THEN AddForms(p1, forms, FALSE) ELSE p1
      p3 == AddVerbs(p2, clean, Len(VERB_CONJUGATION_MAP))
      p4 == IF endswith(clean, <<"i">>) /\ Len(clean) > 1
            THEN AddNew(AddConjugations(p3, stem, I_ADJ_CONJUGATION_MAP), stem, <<"~">>, FALSE)
            ELSE p3
      p5 == IF endswith(clean, <<"na">>)
            THEN AddConjugations(p4, stem, NA_ADJ_CONJUGATION_MAP) ELSE p4
      p6 == IF EndsWithParenNa(clean)
            THEN AddConjugations(p5, StripParenNa(clean), NA_ADJ_CONJUGATION_MAP) ELSE p5
  IN  AddParticles(p6, clean, Len(Particles))

\* the candidate list of a variant as <<pattern, display_suffix>> pairs; the
\* root and SQL_test variants have no display suffix
Candidates(variant, kanji, tag) ==
  IF variant = "Process" THEN get_stem_and_conjugations(kanji, tag)
  ELSE LET ps == get_stem_patterns(variant, kanji, tag)
       IN  [i \in 1..Len(ps) |-> <<ps[i], <<>>>>]

-----------------------------------------------------------------------------
(* Longest-match search                                                    *)

\* largest pattern length in a candidate list
MaxPatternLen(ps) ==
  IF ps = <<>> THEN 0
  ELSE LET i == CHOOSE i \in 1..Len(ps) : \A j \in 1..Len(ps) : Len(ps[j][1]) <= Len(ps[i][1])
       IN  Len(ps[i][1])

\* the candidates of length n.. 0 in list order
RECURSIVE ByLengthFrom(_, _)
ByLengthFrom(ps, n) ==
  IF n < 0 THEN <<>>
  ELSE SelectSeq(ps, LAMBDA p : Len(p[1]) = n) \o ByLengthFrom(ps, n - 1)

\* the candidate list left in generation order
patterns_unsorted(ps) == ps

\* sorted(patterns, key=len, reverse=True): longest first, and stable
patterns_sorted(ps) == ByLengthFrom(ps, MaxPatternLen(ps))

\* the loop slicing after = sentence[idx + 1:], the pattern's length forgotten
RECURSIVE FirstMatch_shortSlice(_, _, _, _)
FirstMatch_shortSlice(ps, i, sentence, withSuffix) ==
  IF i > Len(ps) THEN <<None, None, None>>
  ELSE IF ps[i][1] # <<>> /\ Contains(sentence, ps[i][1])
       THEN LET idx    == index(sentence, ps[i][1])
                before == SubSeq(sentence, 1, idx - 1)
                after  == SubSeq(sentence, idx + 1, Len(sentence))
            IN  <<before, ps[i][1],
                  IF withSuffix /\ ps[i][2] # <<>> THEN ps[i][2] \o after ELSE after>>
       ELSE FirstMatch_shortSlice(ps, i + 1, sentence, withSuffix)

\* the loop giving up when its first candidate is not in the sentence
FirstMatch_firstOnly(ps, i, sentence, withSuffix) ==
  IF i > Len(ps) THEN <<None, None, None>>
  ELSE IF ps[i][1] # <<>> /\ Contains(sentence, ps[i][1])
       THEN LET idx    == index(sentence, ps[i][1])
                before == SubSeq(sentence, 1, idx - 1)
                after  == SubSeq(sentence, idx + Len(ps[i][1]), Len(sentence))
            IN  <<before, ps[i][1],
                  IF withSuffix /\ ps[i][2] # <<>> THEN ps[i][2] \o after ELSE after>>
       ELSE <<None, None, None>>

\* the for loop over patterns_sorted: the split around the first candidate
\* that is non-empty and occurs in the sentence
RECURSIVE FirstMatch(_, _, _, _)
FirstMatch(ps, i, sentence, withSuffix) ==
  IF i > Len(ps) THEN <<None, None, None>>
  ELSE IF ps[i][1] # <<>> /\ Contains(sentence, ps[i][1])
       THEN LET idx    == index(sentence, ps[i][1])
                before == SubSeq(sentence, 1, idx - 1)
                after  == SubSeq(sentence, idx + Len(ps[i][1]), Len(sentence))
            IN  <<before, ps[i][1],
                  IF withSuffix /\ ps[i][2] # <<>> THEN ps[i][2] \o after ELSE after>>
       ELSE FirstMatch(ps, i + 1, sentence, withSuffix)

\* the sentence the search runs on: str(sentence).strip() in the root and
\* Process variants, str(sentence) in SQL_test
Searched(variant, sentence) == IF variant = "SQL_test" THEN sentence ELSE strip(sentence)

\* the word the patterns are generated for
Word(variant, kanji) == IF variant = "SQL_test" THEN kanji ELSE strip(kanji)

\* find_word_in_sentence(kanji, sentence) of the root and SQL_test variants,
\* find_word_in_sentence_with_conjugation(kanji, sentence) of Process
find_word_in_sentence(variant, kanji, sentence, tag) ==
  IF Falsy(sentence) \/ Falsy(kanji) THEN <<None, None, None>>
  ELSE IF isna(sentence) \/ isna(kanji) THEN <<None, None, None>>
  ELSE FirstMatch(patterns_sorted(Candidates(variant, Word(variant, kanji), tag)), 1,
                  Searched(variant, sentence), variant = "Process")

-----------------------------------------------------------------------------
(* SQL text                                                                *)

\* the string left unescaped
DoubleQuotes_none(s) == s

\* str.replace("'", "''")
RECURSIVE DoubleQuotes(_)
DoubleQuotes(s) ==
  IF s = <<>> THEN <<>>
  ELSE (IF Head(s) = "q" THEN <<"q", "q">> ELSE <<Head(s)>>) \o DoubleQuotes(Tail(s))

\* escape_sql_string(value)
escape_sql_string(value) ==
  IF isna(value) THEN <<"N", "U", "L", "L">>
  ELSE <<"q">> \o DoubleQuotes(value) \o <<"q">>

-----------------------------------------------------------------------------
(* Inputs                                                                  *)

\* longest stem of an input word
MaxStemLen == 2
\* longest padding before the word form in an input sentence
MaxLead == 1

\* sequences over S of length lo..hi
SeqsOf(S, lo, hi) == UNION {[1..n -> S] : n \in lo..hi}

\* stems of the input words: the kanji "K", then spaces and particles
Stems == {<<"K">> \o t : t \in SeqsOf({"sp", "no"}, 0, MaxStemLen - 1)}

\* last characters of the input words: the nine verb endings, the adjective
\* endings and a kanji "J" no table has
Finals == {"ru", "u", "ku", "gu", "su", "tsu", "nu", "bu", "mu", "i", "na", "J"}

\* conj_suffix keys of a Process conjugation map
Keys(map) == {map[c][1] : c \in 1..Len(map)}

\* the suffixes any variant lists for words ending in f
SuffixesOf(f) ==
  UNION {Elems(verb_endings_root[e][2]) :
           e \in {e \in 1..Len(verb_endings_root) : verb_endings_root[e][1] = f}}
  \cup UNION {Elems(verb_endings_sqltest[e][2]) :
           e \in {e \in 1..Len(verb_endings_sqltest) : verb_endings_sqltest[e][1] = f}}
  \cup UNION {Keys(VERB_CONJUGATION_MAP[e][2]) :
           e \in {e \in 1..Len(VERB_CONJUGATION_MAP) : VERB_CONJUGATION_MAP[e][1] = f}}
  \cup (IF f = "i" THEN Elems(i_adj_endings) \cup Keys(I_ADJ_CONJUGATION_MAP) ELSE {})
  \cup (IF f = "na" THEN Keys(NA_ADJ_CONJUGATION_MAP) ELSE {})

\* what follows the stem in an input sentence for a word ending in f: a listed
\* suffix, the ending itself or nothing
TailsOf(f) == SuffixesOf(f) \cup {<<f>>, <<>>}

\* padding before the word form in an input sentence
Leads == SeqsOf({"X"}, 0, MaxLead)

\* what follows the word form: nothing, a space, or the word itself
TrailsOf(word) == {<<>>, <<"sp">>, word}

\* words with markers, spaces and particles, and texts to look for them in
SpecialWords ==
  {<<"sp", "K", "ru", "ast">>, <<"K", "no", "J">>, <<"K", "sp", "no", "sp", "J">>,
   <<"fwast", "K", "na">>}
SpecialTexts ==
  {<<"K">>, <<"J">>, <<"sp", "J">>, <<"K", "ru">>, <<"K", "te", "q">>, <<"K", "J">>,
   <<"K", "ni">>, <<"K", "na">>}

\* the docstring example of find_word_in_sentence_with_conjugation
ExampleKanji == <<"ashi", "kaki", "ku">>
ExampleSentence ==
  <<"sui", "chuu", "de", "ashi", "kaki", "i", "te", "oyo", "gi", "ma", "shi", "ta", "maru">>

\* outcomes of the fugashi import and of the tagger: fugashi missing; the
\* word kept whole, without lemma; the word cut after its first character,
\* the last token with the lemma "K ru"
TaggerOutcomes(variant) ==
  {[available |-> FALSE, cut |-> 0, lemma |-> None]}
  \cup (IF variant \in FugashiVariants
        THEN {[available |-> TRUE, cut |-> 0, lemma |-> None],
              [available |-> TRUE, cut |-> 1, lemma |-> <<"K", "ru">>]}
        ELSE {})

\* cells of the 'Supporting word 1' and 'Supporting word 2' columns
SupportingCells == {NaN, <<"S", "q">>, <<"N", "U", "L", "L">>}

\* edge values of the word and sentence arguments
EdgeValues == {None, NaN, <<>>, <<"sp">>}

-----------------------------------------------------------------------------
(* State                                                                   *)

VARIABLES
  variant,         \* which copy of the script runs
  fugashi,         \* FUGASHI_AVAILABLE and the tagger's outcome
  kanji,           \* the word argument / the row's Kanji cell
  sentence,        \* the sentence argument / the row's Sentence cell
  supporting,      \* the row's <<'Supporting word 1', 'Supporting word 2'>>
  pc,              \* "start", "found", "row", "sql", "escape", "escaped"
  result,          \* <<before, matched, after>> as returned by the find function
  example,         \* <<example_before, example_after>> of the vocabulary entry
  sql,             \* <<example_before, example_after>> as SQL text
  value,           \* argument of a direct escape_sql_string call
  escaped,         \* its return value
  files,           \* main: the spreadsheets, in the order of its files list
  fileNo,          \* main: number of files the loop has handled
  all_vocabulary,  \* main: the vocabulary entries collected so far
  sql_lines        \* the lines of the SQL file written

vars == <<variant, fugashi, kanji, sentence, supporting, pc, result, example, sql,
          value, escaped, files, fileNo, all_vocabulary, sql_lines>>

\* the state of a run of main
batch == <<files, fileNo, all_vocabulary, sql_lines>>

\* no run of main is under way
NoBatch == files = <<>> /\ fileNo = 0 /\ all_vocabulary = <<>> /\ sql_lines = <<>>

NoFugashi == [available |-> FALSE, cut |-> 0, lemma |-> None]

\* word and sentence of the initial state: a word with a sentence built around
\* one of its forms, a special word, an edge value for either argument, or
\* the docstring example
InitInputs ==
  \/ \E f \in Finals, stem \in Stems, lead \in Leads :
       \E tail \in TailsOf(f), trail \in TrailsOf(stem \o <<f>>) :
          /\ kanji = stem \o <<f>>
          /\ sentence = lead \o stem \o tail \o trail
  \/ \E lead \in Leads \cup {<<"sp">>}, text \in SpecialTexts, trail \in {<<>>, <<"sp">>} :
       /\ kanji \in SpecialWords
       /\ sentence = lead \o text \o trail
  \/ /\ kanji \in EdgeValues
     /\ sentence \in EdgeValues \cup {<<"K", "ru">>}
  \/ /\ kanji = <<"K", "ru">>
     /\ sentence \in EdgeValues
  \/ /\ kanji = ExampleKanji
     /\ sentence = ExampleSentence

Init ==
  /\ variant \in Variants
  /\ fugashi \in TaggerOutcomes(variant)
  /\ InitInputs
  /\ supporting = <<NaN, NaN>>
  /\ pc = "start"
  /\ result = <<None, None, None>>
  /\ example = <<None, None>>
  /\ sql = <<None, None>>
  /\ value = None
  /\ escaped = None
  /\ NoBatch

\* a call find_word_in_sentence(kanji, sentence)
\* (find_word_in_sentence_with_conjugation in Process)
FindWordInSentence ==
  /\ pc = "start"
  /\ result' = find_word_in_sentence(variant, kanji, sentence, fugashi)
  /\ pc' = "found"
  /\ UNCHANGED <<variant, fugashi, kanji, sentence, supporting, example, sql, value, escaped,
                 batch>>

Next == FindWordInSentence

Spec == Init /\ [][Next]_vars

-----------------------------------------------------------------------------
(* Rows                                                                    *)

\* the sentence test without the strip
HasSentence_noStrip(sent) == notna(sent) /\ sent # <<>>

\* pd.notna(sentence) and str(sentence).strip()
HasSentence(sent) == notna(sent) /\ strip(sent) # <<>>

\* the row body testing "if before:" where the code tests "before is not None"
RowExample_falsyBefore(v, word, sent, sup, tag) ==
  LET r == find_word_in_sentence(v, word, sent, tag)
      e == IF notna(sent) /\ strip(sent) # <<>>
           THEN IF r[1] # None /\ r[1] # <<>>
                THEN <<r[1], IF r[3] # <<>> THEN r[3] ELSE None>>
                ELSE sup
           ELSE <<None, None>>
  IN  <<IF notna(e[1]) THEN e[1] ELSE None, IF notna(e[2]) THEN e[2] ELSE None>>

\* process_excel_file (root, Process): example_before / example_after of the
\* vocabulary entry of one row
RowExample(v, word, sent, sup, tag) ==
  LET r == find_word_in_sentence(v, word, sent, tag)
      e == IF HasSentence(sent)
           THEN IF r[1] # None
                THEN <<IF r[1] # <<>> THEN r[1] ELSE None,
                       IF r[3] # <<>> THEN r[3] ELSE None>>
                ELSE sup
           ELSE <<None, None>>
  IN  <<IF notna(e[1]) THEN e[1] ELSE None, IF notna(e[2]) THEN e[2] ELSE None>>

\* main (SQL_test): the example_before / example_after text of one row's
\* value tuple
RowSql(v, word, sent, sup, tag) ==
  LET r == find_word_in_sentence(v, word, sent, tag)
  IN  IF HasSentence(sent)
      THEN IF r[1] # None
           THEN <<IF r[1] # <<>> THEN escape_sql_string(r[1]) ELSE <<"N", "U", "L", "L">>,
                  IF r[3] # <<>> THEN escape_sql_string(r[3]) ELSE <<"N", "U", "L", "L">>>>
           ELSE <<escape_sql_string(sup[1]), escape_sql_string(sup[2])>>
      ELSE <<<<"N", "U", "L", "L">>, <<"N", "U", "L", "L">>>>

\* rows: the Kanji cell is present (rows without it are filtered out)
RowWords == {<<"K", "ru">>, <<"K", "J">>, <<"sp", "K", "ku", "ast">>}
RowSentences ==
  {NaN, <<>>, <<"sp">>, <<"sp", "sp">>}
  \cup {lead \o <<"K">> \o tail \o trail :
          lead \in Leads, tail \in {<<>>, <<"ru">>, <<"te">>, <<"i", "te">>, <<"J">>},
          trail \in {<<>>, <<"q">>}}
  \cup {lead \o <<"J">> : lead \in Leads}

InitRow ==
  /\ variant \in Variants
  /\ fugashi \in TaggerOutcomes(variant)
  /\ kanji \in RowWords
  /\ sentence \in RowSentences
  /\ supporting \in SupportingCells \X SupportingCells
  /\ pc = "start"
  /\ result = <<None, None, None>>
  /\ example = <<None, None>>
  /\ sql = <<None, None>>
  /\ value = None
  /\ escaped = None
  /\ NoBatch

\* one iteration of the row loop of process_excel_file (root, Process) or of
\* main (SQL_test)
ProcessRow ==
  /\ pc = "start"
  /\ result' = IF HasSentence(sentence)
               THEN find_word_in_sentence(variant, kanji, sentence, fugashi)
               ELSE result
  /\ IF variant = "SQL_test"
     THEN /\ sql' = RowSql(variant, kanji, sentence, supporting, fugashi)
          /\ example' = example
          /\ pc' = "sql"
     ELSE /\ example' = RowExample(variant, kanji, sentence, supporting, fugashi)
          /\ sql' = sql
          /\ pc' = "row"
  /\ UNCHANGED <<variant, fugashi, kanji, sentence, supporting, value, escaped, batch>>

\* generate_sql (root, Process): the two example fields of the entry's value tuple
GenerateSql ==
  /\ pc = "row"
  /\ sql' = <<escape_sql_string(example[1]), escape_sql_string(example[2])>>
  /\ pc' = "sql"
  /\ UNCHANGED <<variant, fugashi, kanji, sentence, supporting, result, example,
                 value, escaped, batch>>

NextRow == ProcessRow \/ GenerateSql

SpecRow == InitRow /\ [][NextRow]_vars

-----------------------------------------------------------------------------
(* Direct calls of escape_sql_string                                       *)

\* longest string escaped
MaxValueLen == 4

\* arguments: a missing value or a string of quotes and the letters of NULL
EscapeInputs == {None, NaN} \cup SeqsOf({"q", "N", "U", "L"}, 0, MaxValueLen)

InitEscape ==
  /\ variant \in Variants
  /\ fugashi = NoFugashi
  /\ kanji = None /\ sentence = None
  /\ supporting = <<NaN, NaN>>
  /\ pc = "escape"
  /\ result = <<None, None, None>>
  /\ example = <<None, None>>
  /\ sql = <<None, None>>
  /\ value \in EscapeInputs
  /\ escaped = None
  /\ NoBatch

EscapeSqlString ==
  /\ pc = "escape"
  /\ escaped' = escape_sql_string(value)
  /\ pc' = "escaped"
  /\ UNCHANGED <<variant, fugashi, kanji, sentence, supporting, result,
                 example, sql, value, batch>>

NextEscape == EscapeSqlString

SpecEscape == InitEscape /\ [][NextEscape]_vars

-----------------------------------------------------------------------------
(* Runs of main                                                            *)

\* most rows of a '1_raw_data' sheet
MaxRows == 2

\* the rows a sheet is made of, by their 'Sr no', 'Kanji', 'Sentence' and
\* 'Supporting word' cells, in the order of their serial numbers: a word with
\* a quote and no sentence, a word found in its sentence, a row without
\* serial number, a row without word
SheetRows ==
  <<[Sr |-> <<"0", ".", "0">>, Kanji |-> <<"K", "q">>,
     Sentence |-> NaN, Supporting |-> <<<<"S", "q">>, NaN>>],
    [Sr |-> <<"1", ".", "0">>, Kanji |-> <<"K", "ru">>,
     Sentence |-> <<"X", "K", "te", "q">>, Supporting |-> <<NaN, NaN>>],
    [Sr |-> NaN, Kanji |-> <<"J">>,
     Sentence |-> NaN, Supporting |-> <<NaN, NaN>>],
    [Sr |-> <<"2", ".", "0">>, Kanji |-> NaN,
     Sentence |-> <<"K">>, Supporting |-> <<NaN, NaN>>]>>

\* the sheets: at most MaxRows of the rows, in their order
Sheets ==
  {LET picked == SelectSeq([i \in 1..Len(SheetRows) |-> i], LAMBDA i : i \in I)
   IN  [k \in 1..Len(picked) |-> SheetRows[picked[k]]] :
     I \in {J \in SUBSET (1..Len(SheetRows)) : Cardinality(J) <= MaxRows}}

\* a file of the files list: missing, or a workbook with its sheet
Missing == [exists |-> FALSE, rows |-> <<>>]
Workbooks == {Missing} \cup {[exists |-> TRUE, rows |-> rows] : rows \in Sheets}

\* the levels of the files list, in its order
Levels == <<<<"N", "1">>, <<"N", "2">>, <<"N", "3">>>>

\* int(row['Sr no']): the digits before the decimal point
int(cell) == IF Contains(cell, <<".">>) THEN SubSeq(cell, 1, index(cell, <<".">>) - 1) ELSE cell

\* df[df['Sr no'].notna()], then df[df['Kanji'].notna()]
ValidRows(rows) == SelectSeq(rows, LAMBDA row : notna(row.Sr) /\ notna(row.Kanji))

\* the entry appended to vocabulary_data for one row, ex its example_before
\* and example_after
EntryOf(row, level, ex) ==
  [level |-> level,
   ref_no |-> int(row.Sr),
   kanji |-> row.Kanji,
   example_before |-> ex[1],
   example_after |-> ex[2],
   full_sentence |-> IF notna(row.Sentence) THEN row.Sentence ELSE None]

\* one iteration of the row loop of process_excel_file
Entry(v, row, level, tag) ==
  EntryOf(row, level, RowExample(v, row.Kanji, row.Sentence, row.Supporting, tag))

\* process_excel_file(excel_path, level)
process_excel_file(v, rows, level, tag) ==
  LET df == ValidRows(rows)
  IN  [i \in 1..Len(df) |-> Entry(v, df[i], level, tag)]

\* all_vocabulary.extend(data), the data put in front
extend_front(vocabulary, data) == data \o vocabulary

\* all_vocabulary.extend(data)
extend(vocabulary, data) == vocabulary \o data

\* a line of the SQL file that is no value tuple
Line(t) == [kind |-> "line", text |-> t, fields |-> <<>>]

\* a value tuple of the SQL file, with the separator that follows it
ValueTuple(fields, sep) == [kind |-> "tuple", text |-> sep, fields |-> fields]

\* the join leaving out the last value
join_dropLast(values) ==
  IF Len(values) <= 1 THEN <<Line("")>>
  ELSE [i \in 1..(Len(values) - 1) |->
          ValueTuple(values[i], IF i < Len(values) - 1 THEN "," ELSE "")]

\* ',\n'.join(values_list)
join(values) ==
  IF values = <<>> THEN <<Line("")>>
  ELSE [i \in 1..Len(values) |-> ValueTuple(values[i], IF i < Len(values) THEN "," ELSE "")]

\* {v['ref_no'] or 'NULL'}
RefNoOrNull(ref_no) ==
  IF ref_no = None \/ ref_no = <<"0">> THEN <<"N", "U", "L", "L">> ELSE ref_no

\* generate_sql: the value of one entry (its level, ref_no, kanji,
\* example_before, example_after and full_sentence columns)
EntryValue(v) ==
  <<escape_sql_string(v.level), RefNoOrNull(v.ref_no), escape_sql_string(v.kanji),
    escape_sql_string(v.example_before), escape_sql_string(v.example_after),
    escape_sql_string(v.full_sentence)>>

\* the lines before the values
SqlHead(v) ==
  <<Line("-- =====================================================")>>
  \o (IF v = "SQL_test"
      THEN <<Line("-- JLPT N1 Vocabulary Data Import"),
             Line("-- Generated from Excel file"),
             Line("-- example_before and example_after are AUTO-GENERATED"),
             Line("-- from full_sentence using Japanese conjugation rules")>>
      ELSE <<Line("-- JLPT Vocabulary Data Import (N1 + N2 + N3)"),
             Line("-- Generated by 02_excel_to_sql.py"),
             Line("-- example_before and example_after are AUTO-GENERATED")>>
           \o (IF v = "Process"
               THEN <<Line("-- Conjugation suffixes (~te, ~ta, etc.) are PRESERVED")>>
               ELSE <<>>))
  \o <<Line("-- ====================================================="),
       Line(""),
       Line("-- Make sure to run 01_create_schema.sql first!"),
       Line(""),
       Line("BEGIN;"),
       Line(""),
       Line("-- Insert vocabulary data"),
       Line("INSERT INTO vocabulary ("),
       Line(IF v = "SQL_test" THEN "    ref_no, kanji, hiragana, meaning_en,"
            ELSE "    level, ref_no, kanji, hiragana, meaning_en,"),
       Line("    example_before, example_after, hint, full_sentence,"),
       Line("    page_no, schedule_id, word_type, difficulty_level"),
       Line(") VALUES")>>

\* the lines after the values
SqlTail(v) ==
  <<Line(";"), Line(""), Line("COMMIT;"), Line(""), Line("-- Verify the import")>>
  \o (IF v = "SQL_test"
      THEN <<Line("SELECT 'Total vocabulary entries:' as info, COUNT(*) as count FROM vocabulary;"),
             Line("SELECT 'Words with auto-generated examples:' as info, COUNT(*) as count FROM vocabulary WHERE example_before IS NOT NULL;"),
             Line("SELECT 'Words per week:' as info, s.week, COUNT(v.id) as count"),
             Line("FROM schedule s LEFT JOIN vocabulary v ON v.schedule_id = s.id"),
             Line("GROUP BY s.week ORDER BY s.week;")>>
      ELSE <<Line("SELECT level, COUNT(*) as count FROM vocabulary GROUP BY level ORDER BY level;"),
             Line("SELECT 'Total:' as level, COUNT(*) as count FROM vocabulary;")>>)

\* generate_sql(all_vocabulary) (root, Process)
generate_sql(v, vocabulary) ==
  SqlHead(v) \o join([i \in 1..Len(vocabulary) |-> EntryValue(vocabulary[i])]) \o SqlTail(v)

\* main (SQL_test): the value of one row
RowValue(v, row, tag) ==
  LET ex == RowSql(v, row.Kanji, row.Sentence, row.Supporting, tag)
  IN  <<int(row.Sr), escape_sql_string(row.Kanji), ex[1], ex[2],
        escape_sql_string(row.Sentence)>>

\* main(excel_path) (SQL_test): the lines written to the file
main_sql_test(v, rows, tag) ==
  LET df == ValidRows(rows)
  IN  SqlHead(v) \o join([i \in 1..Len(df) |-> RowValue(v, df[i], tag)]) \o SqlTail(v)

\* the start of main: root and Process are given three files, SQL_test one
\* workbook
InitMain ==
  /\ variant \in Variants
  /\ fugashi = NoFugashi
  /\ kanji = None /\ sentence = None
  /\ supporting = <<NaN, NaN>>
  /\ pc = "main"
  /\ result = <<None, None, None>>
  /\ example = <<None, None>>
  /\ sql = <<None, None>>
  /\ value = None
  /\ escaped = None
  /\ IF variant = "SQL_test"
     THEN \E book \in Workbooks \ {Missing} : files = <<book>>
     ELSE files \in Workbooks \X Workbooks \X Workbooks
  /\ fileNo = 0
  /\ all_vocabulary = <<>>
  /\ sql_lines = <<>>

\* one iteration of "for file_path, level in files" (root, Process)
ProcessExcelFile ==
  /\ pc = "main"
  /\ variant # "SQL_test"
  /\ fileNo < Len(files)
  /\ fileNo' = fileNo + 1
  /\ all_vocabulary' =
       IF files[fileNo'].exists
       THEN extend(all_vocabulary,
                   process_excel_file(variant, files[fileNo'].rows, Levels[fileNo'], fugashi))
       ELSE all_vocabulary
  /\ UNCHANGED <<variant, fugashi, kanji, sentence, supporting, pc, result, example, sql,
                 value, escaped, files, sql_lines>>

\* the rest of main (root, Process): nothing is written without entries,
\* otherwise the generated SQL is written
WriteSql ==
  /\ pc = "main"
  /\ variant # "SQL_test"
  /\ fileNo = Len(files)
  /\ IF all_vocabulary = <<>>
     THEN pc' = "nodata" /\ sql_lines' = sql_lines
     ELSE pc' = "written" /\ sql_lines' = generate_sql(variant, all_vocabulary)
  /\ UNCHANGED <<variant, fugashi, kanji, sentence, supporting, result, example, sql,
                 value, escaped, files, fileNo, all_vocabulary>>

\* main(excel_path) (SQL_test)
MainSqlTest ==
  /\ pc = "main"
  /\ variant = "SQL_test"
  /\ fileNo = 0
  /\ fileNo' = 1
  /\ sql_lines' = main_sql_test(variant, files[1].rows, fugashi)
  /\ pc' = "written"
  /\ UNCHANGED <<variant, fugashi, kanji, sentence, supporting, result, example, sql,
                 value, escaped, files, all_vocabulary>>

NextMain == ProcessExcelFile \/ WriteSql \/ MainSqlTest

SpecMain == InitMain /\ [][NextMain]_vars

-----------------------------------------------------------------------------
(* Properties of the find function                                         *)

NoMatch == <<None, None, None>>

\* the find function has returned for string arguments
Called == pc = "found" /\ notna(kanji) /\ notna(sentence)

\* the non-empty candidate patterns generated for the word
CandidatePatterns ==
  LET ps == Candidates(variant, Word(variant, kanji), fugashi)
  IN  {ps[i][1] : i \in 1..Len(ps)} \ {<<>>}

\* the entries <<ending, suffixes>> of the variant's verb suffix table
SuffixTable ==
  IF variant = "Process"
  THEN {<<VERB_CONJUGATION_MAP[e][1], Keys(VERB_CONJUGATION_MAP[e][2])>> :
          e \in 1..Len(VERB_CONJUGATION_MAP)}
  ELSE {<<verb_endings(variant)[e][1], Elems(verb_endings(variant)[e][2])>> :
          e \in 1..Len(verb_endings(variant))}

\* the stem of the word: its cleaned form without the last character
StemOfWord == LET clean == clean_kanji(kanji) IN SubSeq(clean, 1, Len(clean) - 1)

\* the forms stem + c, c a suffix the variant lists for the word's verb ending
ListedVerbForms ==
  {StemOfWord \o c : c \in UNION {t[2] : t \in {t \in SuffixTable :
       endswith(clean_kanji(kanji), <<t[1]>>) /\ StemOfWord # <<>>}}}

\* C1: whenever find_word_in_sentence of the root and SQL_test variants
\* returns a match, before + matched + after is the sentence searched: the
\* whitespace-stripped sentence in root, the sentence as given in SQL_test.
C1_SplitConcatenates ==
  (Called /\ variant \in {"root", "SQL_test"} /\ result # NoMatch) =>
     result[1] \o result[2] \o result[3] = (IF variant = "root" THEN strip(sentence) ELSE sentence)

\* a root match inside a padded sentence, with text on both sides
C1_Witness ==
  /\ Called /\ variant = "root" /\ result # NoMatch
  /\ strip(sentence) # sentence
  /\ result[1] # <<>> /\ result[3] # <<>>

C3_AsStated ==
  (Called /\ ~fugashi.available) =>
     \A form \in ListedVerbForms :
        Contains(sentence, form) => (result # NoMatch /\ Len(result[2]) >= Len(form))

\* C3 amended: with fugashi unavailable, if the sentence as searched
\* (whitespace-stripped at both ends in the root and Process variants, as
\* given in SQL_test) contains stem + c for a suffix c listed for the word's
\* verb ending, the find function returns a match at least as long as stem + c.
C3_ListedFormFound ==
  (Called /\ ~fugashi.available) =>
     \A form \in ListedVerbForms :
        Contains(IF variant = "SQL_test" THEN sentence ELSE strip(sentence), form)
           => (result # NoMatch /\ Len(result[2]) >= Len(form))

\* a listed form longer than the word is in the sentence and is matched
C3_Witness ==
  /\ Called /\ ~fugashi.available /\ result # NoMatch
  /\ result[2] \in ListedVerbForms
  /\ Len(result[2]) > Len(kanji)

\* C4 as stated: the result is (None, None, None) exactly when the word or
\* the sentence is empty or missing or no non-empty candidate occurs in the
\* sentence; otherwise its three elements are strings.
C4_AsStated ==
  pc = "found" =>
     /\ result = NoMatch <=>
          \/ Falsy(kanji) \/ Falsy(sentence) \/ isna(kanji) \/ isna(sentence)
          \/ \A p \in CandidatePatterns : ~Contains(sentence, p)
     /\ result # NoMatch => \A i \in 1..3 : result[i] # None

\* C4 amended: the result is (None, None, None) exactly when the word or the
\* sentence is empty or missing or no non-empty candidate occurs in the
\* sentence as searched (whitespace-stripped at both ends in the root and
\* Process variants); otherwise its three elements are strings.
C4_NoneExactlyWhenNothingFound ==
  pc = "found" =>
     /\ result = NoMatch <=>
          \/ Falsy(kanji) \/ Falsy(sentence) \/ isna(kanji) \/ isna(sentence)
          \/ \A p \in CandidatePatterns :
                ~Contains(IF variant = "SQL_test" THEN sentence ELSE strip(sentence), p)
     /\ result # NoMatch => \A i \in 1..3 : result[i] # None

\* string arguments, candidates generated, none of them in the sentence
C4_Witness ==
  /\ Called /\ result = NoMatch
  /\ ~Falsy(kanji) /\ ~Falsy(sentence)
  /\ CandidatePatterns # {}

\* the candidate <<pattern, display_suffix>> pairs whose pattern is p
PairsOf(p) ==
  LET ps == Candidates(variant, Word(variant, kanji), fugashi)
  IN  {ps[i] : i \in {i \in 1..Len(ps) : ps[i][1] = p}}

\* the sentence text after the first occurrence of p
TextAfter(p) ==
  LET s == Searched(variant, sentence)
      k == CHOOSE i \in Occurrences(s, p) : \A j \in Occurrences(s, p) : i <= j
  IN  SubSeq(s, k + Len(p), Len(s))

\* C5: in the Process variant a match is returned as (before,
\* display_suffix, after): the second element is the display suffix of the
\* conjugation found, the third the sentence text following the match, so
\* that for the word 足掻く and the sentence 水中で足掻いて泳ぎました。 the
\* result is (水中で, ～いて, 泳ぎました。).  Stated on that call.
C5_ReturnsDisplaySuffix ==
  (Called /\ variant = "Process" /\ kanji = ExampleKanji /\ sentence = ExampleSentence) =>
     /\ result # NoMatch
     /\ \E p \in CandidatePatterns :
          /\ Contains(Searched(variant, sentence), p)
          /\ result[2] \in {pair[2] : pair \in PairsOf(p)}
          /\ result[3] = TextAfter(p)
     /\ result = <<<<"sui", "chuu", "de">>, <<"~", "i", "te">>,
                   <<"oyo", "gi", "ma", "shi", "ta", "maru">>>>

\* the suffixes of the word's verb, い-adjective or な-adjective map, without
\* the empty one and the dictionary ending
ConjugationSuffixes ==
  LET clean == clean_kanji(kanji)
  IN  (UNION {Keys(VERB_CONJUGATION_MAP[e][2]) :
          e \in {e \in 1..Len(VERB_CONJUGATION_MAP) :
                   endswith(clean, <<VERB_CONJUGATION_MAP[e][1]>>)}}
       \cup (IF endswith(clean, <<"i">>) /\ Len(clean) > 1 THEN Keys(I_ADJ_CONJUGATION_MAP) ELSE {})
       \cup (IF endswith(clean, <<"na">>) THEN Keys(NA_ADJ_CONJUGATION_MAP) ELSE {}))
      \ {<<>>, <<clean[Len(clean)]>>}

C7_ExactWordFirst ==
  (/\ Called
   /\ Word(variant, kanji) # <<>>
   /\ Contains(Searched(variant, sentence), Word(variant, kanji))) =>
     result[2] = Word(variant, kanji)

-----------------------------------------------------------------------------
(* Properties of the rows and of the SQL text                              *)

NULL == <<"N", "U", "L", "L">>

\* a row's SQL text is complete
Emitted == pc = "sql"

\* the sentence cell is missing or holds only whitespace
BlankSentence == isna(sentence) \/ strip(sentence) = <<>>

\* some non-empty candidate of the row's word occurs in the sentence searched
WordFound ==
  \E p \in CandidatePatterns : Contains(Searched(variant, sentence), p)

\* SQL text of a fragment of the split: NULL for the empty fragment, else quoted
FragmentSql(s) == IF s = <<>> THEN NULL ELSE escape_sql_string(s)

\* C8: a row with a non-blank sentence in which no candidate of the word is
\* found takes example_before / example_after from 'Supporting word 1' /
\* 'Supporting word 2' (NULL where missing); a row whose word is found takes
\* them from the split and never from those columns.
C8_FallbackOnlyWhenNotFound ==
  (Emitted /\ ~BlankSentence) =>
     IF WordFound
     THEN sql = <<FragmentSql(result[1]), FragmentSql(result[3])>>
     ELSE sql = <<escape_sql_string(supporting[1]), escape_sql_string(supporting[2])>>

\* a row whose word is not found, with one supporting cell present and the
\* other missing
C8_Witness ==
  /\ Emitted /\ ~BlankSentence /\ ~WordFound
  /\ supporting[1] # NaN /\ supporting[2] = NaN
  /\ sql[1] # NULL /\ sql[2] = NULL

\* C9: a row whose sentence is missing or only whitespace gets NULL for both
\* example_before and example_after, whatever the supporting columns hold.
C9_BlankSentenceGivesNull ==
  (Emitted /\ BlankSentence) => sql = <<NULL, NULL>>

\* a whitespace-only sentence in a row with both supporting cells present
C9_Witness ==
  /\ Emitted /\ sentence = <<"sp">>
  /\ supporting[1] # NaN /\ supporting[2] # NaN
  /\ sql = <<NULL, NULL>>

\* s.replace("''", "'"): each pair of quotes, left to right, becomes one
RECURSIVE Unescape(_)
Unescape(s) ==
  IF Len(s) >= 2 /\ s[1] = "q" /\ s[2] = "q" THEN <<"q">> \o Unescape(SubSeq(s, 3, Len(s)))
  ELSE IF s = <<>> THEN <<>>
  ELSE <<Head(s)>> \o Unescape(Tail(s))

\* number of single quotes in s
Quotes(s) == Cardinality({i \in 1..Len(s) : s[i] = "q"})

\* C10: escape_sql_string returns the unquoted text NULL for None / NaN and
\* otherwise the string in single quotes with every single quote doubled;
\* stripping the outer quotes and replacing '' by ' gives the string back,
\* and the string NULL comes out quoted, unlike a missing value.
C10_EscapeRoundTrip ==
  pc = "escaped" =>
     IF isna(value) THEN escaped = NULL
     ELSE LET inner == SubSeq(escaped, 2, Len(escaped) - 1)
          IN  /\ Len(escaped) >= 2 /\ escaped[1] = "q" /\ escaped[Len(escaped)] = "q"
              /\ Quotes(inner) = 2 * Quotes(value)
              /\ Unescape(inner) = value
              /\ escaped # NULL
              /\ value = NULL => escaped = <<"q", "N", "U", "L", "L", "q">>

\* a string with two adjacent quotes has been escaped
C10_Witness ==
  /\ pc = "escaped" /\ notna(value)
  /\ \E i \in 1..(Len(value) - 1) : value[i] = "q" /\ value[i + 1] = "q"
  /\ Len(escaped) = Len(value) + Quotes(value) + 2

-----------------------------------------------------------------------------
(* Properties of main                                                      *)

\* main has written the SQL file
Written == pc = "written"

\* the variants whose main reads the N1, N2 and N3 files
MultiFile == variant \in {"root", "Process"}

\* the value of a cell: None for a missing one
CellValue(cell) == IF cell = NaN THEN None ELSE cell

\* the rows of file k that have a serial number and a word
KeptRows(k) == SelectSeq(files[k].rows, LAMBDA row : row.Sr # NaN /\ row.Kanji # NaN)

\* the place of an entry's level among N1, N2, N3
LevelNo(entry) == CHOOSE k \in 1..Len(Levels) : Levels[k] = entry.level

\* the entries of all_vocabulary of the k-th level, in their order
EntriesOfLevel(k) == SelectSeq(all_vocabulary, LAMBDA entry : entry.level = Levels[k])

\* the value tuples of the SQL file, in their order
Tuples == SelectSeq(sql_lines, LAMBDA line : line.kind = "tuple")

\* the value a piece of SQL text stands for: None for NULL, otherwise the
\* string between the quotes with '' read as '
Unquoted(text) ==
  IF text = NULL THEN None ELSE Unescape(SubSeq(text, 2, Len(text) - 1))

\* C11: in the root and Process variants the entries keep input order: at
\* every point of main no entry of a later level precedes one of an
\* earlier level (N1, N2, N3), the entries of each file handled are the
\* file's kept rows in row order, no entry belongs to a file not yet
\* handled, and the value tuples written are the entries in the same order.
C11_InputOrderKept ==
  MultiFile =>
     /\ \A i, j \in 1..Len(all_vocabulary) :
           i < j => LevelNo(all_vocabulary[i]) <= LevelNo(all_vocabulary[j])
     /\ \A k \in 1..fileNo :
           LET entries == EntriesOfLevel(k)
               rows    == KeptRows(k)
           IN  /\ Len(entries) = Len(rows)
               /\ \A i \in 1..Len(rows) :
                     /\ entries[i].kanji = rows[i].Kanji
                     /\ entries[i].full_sentence = CellValue(rows[i].Sentence)
     /\ \A k \in (fileNo + 1)..Len(files) : EntriesOfLevel(k) = <<>>
     /\ Written =>
           /\ Len(Tuples) = Len(all_vocabulary)
           /\ \A i \in 1..Len(all_vocabulary) :
                 /\ Unquoted(Tuples[i].fields[1]) = all_vocabulary[i].level
                 /\ Unquoted(Tuples[i].fields[3]) = all_vocabulary[i].kanji
                 /\ Unquoted(Tuples[i].fields[6]) = all_vocabulary[i].full_sentence

\* the file is written from an N1 sheet with two different kept rows, an N2
\* sheet with a kept and a dropped row, and an N3 sheet with a kept row
C11_Witness ==
  /\ Written /\ MultiFile
  /\ Len(KeptRows(1)) = 2 /\ KeptRows(1)[1] # KeptRows(1)[2]
  /\ Len(files[2].rows) = 2 /\ Len(KeptRows(2)) = 1
  /\ KeptRows(3) # <<>>
  /\ Len(Tuples) = Len(KeptRows(1)) + Len(KeptRows(2)) + Len(KeptRows(3))

\* the lines of the verification queries
VerificationSelects ==
  {"SELECT level, COUNT(*) as count FROM vocabulary GROUP BY level ORDER BY level;",
   "SELECT 'Total:' as level, COUNT(*) as count FROM vocabulary;",
   "SELECT 'Total vocabulary entries:' as info, COUNT(*) as count FROM vocabulary;",
   "SELECT 'Words with auto-generated examples:' as info, COUNT(*) as count FROM vocabulary WHERE example_before IS NOT NULL;",
   "SELECT 'Words per week:' as info, s.week, COUNT(v.id) as count",
   "FROM schedule s LEFT JOIN vocabulary v ON v.schedule_id = s.id",
   "GROUP BY s.week ORDER BY s.week;"}

\* the line numbers of the SQL file holding the text t
LinesWith(t) == {i \in 1..Len(sql_lines) : sql_lines[i].kind = "line" /\ sql_lines[i].text = t}

\* the line number of the only line holding the text t
LineOf(t) == CHOOSE i \in LinesWith(t) : TRUE

\* the line numbers of the value tuples
TupleLines == {i \in 1..Len(sql_lines) : sql_lines[i].kind = "tuple"}

\* the words and sentences of the vocabulary entries the file is written
\* from: the entries of all_vocabulary, in SQL_test the kept rows of the sheet
WrittenEntries ==
  IF MultiFile
  THEN [i \in 1..Len(all_vocabulary) |->
          <<all_vocabulary[i].kanji, all_vocabulary[i].full_sentence>>]
  ELSE [i \in 1..Len(KeptRows(1)) |->
          <<KeptRows(1)[i].Kanji, CellValue(KeptRows(1)[i].Sentence)>>]

\* the word and sentence columns of a value tuple
WordAndSentence(fields) ==
  IF MultiFile THEN <<Unquoted(fields[3]), Unquoted(fields[6])>>
  ELSE <<Unquoted(fields[2]), Unquoted(fields[5])>>

\* C12: the SQL file written holds exactly one value tuple per vocabulary
\* entry, the i-th tuple for the i-th entry; the tuples follow the VALUES
\* line of the only INSERT INTO vocabulary statement without a gap, separated
\* by commas and closed by the only ";" line; BEGIN; comes before the INSERT,
\* COMMIT; after its end, and the verification SELECTs after COMMIT;.
C12_OneTuplePerEntry ==
  Written =>
     LET n == Len(WrittenEntries)
     IN  /\ Len(Tuples) = n
         /\ \A i \in 1..n : WordAndSentence(Tuples[i].fields) = WrittenEntries[i]
         /\ \A t \in {"BEGIN;", "INSERT INTO vocabulary (", ") VALUES", ";", "COMMIT;"} :
               Cardinality(LinesWith(t)) = 1
         /\ LineOf("BEGIN;") < LineOf("INSERT INTO vocabulary (")
         /\ LineOf("INSERT INTO vocabulary (") < LineOf(") VALUES")
         /\ n > 0 => TupleLines = (LineOf(") VALUES") + 1)..(LineOf(") VALUES") + n)
         /\ n > 0 => LineOf(";") = LineOf(") VALUES") + n + 1
         /\ \A i \in TupleLines :
               sql_lines[i].text = (IF i + 1 \in TupleLines THEN "," ELSE "")
         /\ LineOf(") VALUES") < LineOf(";")
         /\ LineOf(";") < LineOf("COMMIT;")
         /\ \E i \in 1..Len(sql_lines) :
               sql_lines[i].kind = "line" /\ sql_lines[i].text \in VerificationSelects
         /\ \A i \in 1..Len(sql_lines) :
               (sql_lines[i].kind = "line" /\ sql_lines[i].text \in VerificationSelects)
                  => LineOf("COMMIT;") < i

\* a file written by any variant from a sheet with a dropped row: two entries
\* at least, the word of one of them holding a quote
C12_Witness ==
  /\ Written
  /\ \E k \in 1..Len(files) : Len(KeptRows(k)) < Len(files[k].rows)
  /\ Len(Tuples) >= 2
  /\ \E i \in 1..Len(WrittenEntries) : "q" \in Elems(WrittenEntries[i][1])

=============================================================================
